---- MODULE Spec2Model ----
(***************************************************************************)
(* A model of libafl_qemu/src/asan.rs: the QEMU address-sanitizer helper   *)
(* (QemuAsanHelper), its ten load/store execution hooks and the fake       *)
(* syscall dispatcher (qasan_fake_syscall).                                *)
(*                                                                         *)
(* The helper calls into the asan_giovese runtime through the extern "C"   *)
(* block of asan.rs (lines 74-100).  Only the declarations of those        *)
(* functions are part of the source tree that is modelled here, so their   *)
(* behaviour is taken from the design document (sections 3, 4.1, 4.2 and   *)
(* 4.4): a shadow map of one tag per aligned 8-byte cell, an allocation    *)
(* registry of chunk records, and a reporter that ends the current run.    *)
(*                                                                         *)
(* Three specifications share the module.  Spec is the helper at work in   *)
(* a fuzzing campaign; SpecInit is start-up (init_with_asan, the two       *)
(* constructors, QemuHelper::init and the first guest accesses); SpecPush  *)
(* is PushStage::next_std of libafl/src/stages/push/mod.rs.                *)
(***************************************************************************)
EXTENDS Integers, FiniteSets, Sequences, TLC

(***************************************************************************)
(* Bounds of the model.                                                    *)
(***************************************************************************)
\* number of 8-byte cells of guest memory that the model tracks
MemCells == 3
\* chunks the registry may hold at once
MaxChunks == 1
\* call contexts that may be allocated between two resets
MaxCtx == 3

(***************************************************************************)
(* Program constants.                                                      *)
(***************************************************************************)
QASAN_FAKESYS_NR == 41636

CheckLoad == 0
CheckStore == 1
Poison == 2
UserPoison == 3
UnPoison == 4
IsPoison == 5
Alloc == 6
Dealloc == 7
Enable == 8
Disable == 9
SwapState == 10

\* the discriminants of enum QasanAction
QasanAction == CheckLoad..SwapState

Valid == 0
Partial3 == 3
User == 247
HeapLeftRz == 250
HeapRightRz == 251
HeapFreed == 253

\* the discriminants of enum PoisonKind
PoisonKind ==
    (0..7) \cup {172, 240, 241, 242, 243, 245, 248, 249, 233, 247, 250, 251, 253}

\* bytes of one shadow cell
CellSize == 8
\* redzone width on each side of a payload
RedzoneSize == 8
\* offset between a guest address and the host address that backs it
GuestBase == 64
\* u64::MAX, narrowed to the integer width of the model checker
U64Max == 2147483647

\* the first guest address past the modelled memory
MemTop == CellSize * MemCells

(***************************************************************************)
(* Inputs: the guest addresses, sizes and tags the guest program uses.     *)
(***************************************************************************)
AddrInputs == {8, 13, 16}
SizeInputs == {0, 3, 8}
\* the last one is not a discriminant of PoisonKind
TagInputs == {Valid, Partial3, HeapFreed, 9}
\* action numbers outside the action table, and syscall numbers other than
\* the reserved one
BadActions == {153}
OtherSysNrs == {1}

VARIABLES
    enabled,    \* QemuAsanHelper.enabled
    shadow,     \* the shadow map: host cell -> tag
    registry,   \* the allocation registry: a set of ChunkInfo records
    nextCtx,    \* the next CallContext that calloc hands out
    run,        \* "running" or "crashed": the current guest run
    proc,       \* "alive" or "panicked": the process that runs the emulator
    report,     \* what the reporter emitted in the current run
    ret,        \* the result of the last syscall hook
    checked,    \* whether the last operation consulted the shadow map
    op,         \* the hook or handler that ran last
    ASAN_INITED,    \* static mut ASAN_INITED
    args,           \* the argument vector handed to init_with_asan
    env,            \* the environment list handed to init_with_asan
    helper,         \* "none", or "built": a QemuAsanHelper exists
    filter,         \* QemuAsanHelper.filter
    hooks,          \* the callbacks registered with the emulator
    initialized,        \* PushStageHelper.initialized
    errored,            \* PushStageHelper.errored
    exit_kind,          \* PushStageHelper.exit_kind (shared with the executor)
    last_monitor_time,  \* PushStageHelper.last_monitor_time
    shared_state,       \* "Some" or "None": PushStageHelper.shared_state
    calls,              \* the callbacks the last next_std invoked, in order
    returned,           \* what the last next_std returned
    slice,      \* v, the &[Option<u8>] handed to generalized_from_options
    metadata,   \* GeneralizedInputMetadata.generalized, the item list
    collected,  \* the Vec<u8> that generalized_to_bytes returned
    genStep     \* "-", "slice", "from_options" or "to_bytes"

\* the sanitizer helper and the runtime under it
asanVars == <<enabled, shadow, registry, nextCtx, run, proc, report, ret, checked, op>>
\* start-up: init_with_asan, the constructors, QemuHelper::init
lifeVars == <<ASAN_INITED, args, env, helper, filter, hooks>>
\* the push stage
pushVars == <<initialized, errored, exit_kind, last_monitor_time, shared_state,
              calls, returned>>

\* the generalized input
genVars == <<slice, metadata, collected, genStep>>

vars == <<asanVars, lifeVars, pushVars, genVars>>

NULL == 0
NoReport == [kind |-> "none", access_type |-> -1, addr |-> 0, n |-> 0]
NoRet == "-"

(***************************************************************************)
(* emu::g2h and the shadow map (asan_giovese_load*/store*/poison_region/   *)
(* unpoison_region).                                                       *)
(***************************************************************************)
g2h(addr) == addr + GuestBase

ShadowCells == (GuestBase \div CellSize)..((GuestBase + MemTop - 1) \div CellSize)

\* a byte is accessible iff its cell is Valid, or the cell is Partial_k and
\* the byte's offset in the cell is below k
Accessible(sh, h) ==
    LET k == sh[h \div CellSize]
    IN  k = Valid \/ (k \in 1..7 /\ h % CellSize < k)

\* check(addr, n): 0 when every byte of [h, h+n) is accessible, 1 otherwise
ShadowCheck(sh, h, n) ==
    IF \E b \in h..(h + n - 1) : ~Accessible(sh, b) THEN 1 ELSE 0

asan_giovese_load1(sh, h) == ShadowCheck(sh, h, 1)
asan_giovese_load2(sh, h) == ShadowCheck(sh, h, 2)
asan_giovese_load4(sh, h) == ShadowCheck(sh, h, 4)
asan_giovese_load8(sh, h) == ShadowCheck(sh, h, 8)
asan_giovese_store1(sh, h) == ShadowCheck(sh, h, 1)
asan_giovese_store2(sh, h) == ShadowCheck(sh, h, 2)
asan_giovese_store4(sh, h) == ShadowCheck(sh, h, 4)
asan_giovese_store8(sh, h) == ShadowCheck(sh, h, 8)
asan_giovese_loadN(sh, h, n) == ShadowCheck(sh, h, n)
asan_giovese_storeN(sh, h, n) == ShadowCheck(sh, h, n)

\* poison(addr, n, tag): every cell fully inside [h, h+n) takes the tag; the
\* cell that holds the end of the range, when the end is not aligned, becomes
\* Partial_k with k = (h+n) mod 8 unless it already carries a reason tag
asan_giovese_poison_region(sh, h, n, tag) ==
    LET end == h + n
        last == end \div CellSize
    IN  [c \in DOMAIN sh |->
            IF c * CellSize >= h /\ (c + 1) * CellSize <= end THEN tag
            ELSE IF n > 0 /\ c = last /\ end % CellSize # 0 /\ sh[c] \in 0..7
                 THEN end % CellSize
            ELSE sh[c]]

\* unpoison(addr, n): every cell that the range reaches and that ends inside
\* it becomes Valid; the cell that holds an unaligned end becomes Partial_k
asan_giovese_unpoison_region(sh, h, n) ==
    LET end == h + n
        last == end \div CellSize
    IN  [c \in DOMAIN sh |->
            IF n > 0 /\ (c + 1) * CellSize > h /\ (c + 1) * CellSize <= end THEN Valid
            ELSE IF n > 0 /\ c = last /\ end % CellSize # 0 THEN end % CellSize
            ELSE sh[c]]

(***************************************************************************)
(* The allocation registry (asan_giovese_alloc_insert/search/remove).      *)
(***************************************************************************)
NullChunk == [start |-> -1, end |-> -1, alloc_ctx |-> NULL, free_ctx |-> NULL]

ChunkInfo(start, end, alloc_ctx, free_ctx) ==
    [start |-> start, end |-> end, alloc_ctx |-> alloc_ctx, free_ctx |-> free_ctx]

\* insert: the registry gains the chunk
asan_giovese_alloc_insert(reg, start, end, ctx) ==
    reg \cup {ChunkInfo(start, end, ctx, NULL)}

\* insert: both redzones are poisoned and the payload is unpoisoned
InsertShadow(sh, start, end) ==
    LET left == asan_giovese_poison_region(sh, g2h(start - RedzoneSize),
                                           RedzoneSize, HeapLeftRz)
        right == asan_giovese_poison_region(left, g2h(end), RedzoneSize, HeapRightRz)
    IN  asan_giovese_unpoison_region(right, g2h(start), end - start)

Distance(ck, addr) == IF addr < ck.start THEN ck.start - addr ELSE addr - ck.end + 1

\* search: the chunk whose interval holds addr, or else the nearest freed
\* chunk; the set of the pointers the search may return (NullChunk: none)
asan_giovese_alloc_search(reg, addr) ==
    LET holding == {ck \in reg : ck.start <= addr /\ addr < ck.end}
        freed == {ck \in reg : ck.free_ctx # NULL}
    IN  IF holding # {} THEN holding
        ELSE IF freed = {} THEN {NullChunk}
        ELSE {ck \in freed : \A o \in freed : Distance(ck, addr) <= Distance(o, addr)}

\* remove: every chunk that lies entirely within [start, end) goes
asan_giovese_alloc_remove(reg, start, end) ==
    {ck \in reg : ~(start <= ck.start /\ ck.end <= end)}

\* the reporter: it emits the report and ends the current run; control does
\* not come back to the caller
asan_giovese_report_and_crash(access_type, addr, n) ==
    /\ report' = [kind |-> "access", access_type |-> access_type, addr |-> addr, n |-> n]
    /\ run' = "crashed"

asan_giovese_badfree(addr) ==
    /\ report' = [kind |-> "badfree", access_type |-> -1, addr |-> addr, n |-> 0]
    /\ run' = "crashed"

(***************************************************************************)
(* QemuAsanHelper: the methods of the helper.  Each one states what it     *)
(* does to the sanitizer and to the current run; the hook or handler that  *)
(* calls it adds op and ret.                                               *)
(***************************************************************************)
\* a variant of set_enabled that switches the helper on whatever it is given
set_enabled_on(b) ==
    /\ enabled' = TRUE
    /\ checked' = FALSE
    /\ UNCHANGED <<shadow, registry, nextCtx, report, run, proc>>

set_enabled(b) ==
    /\ enabled' = b
    /\ checked' = FALSE
    /\ UNCHANGED <<shadow, registry, nextCtx, report, run, proc>>

\* a variant of alloc that hands the start of the chunk over as its end too
alloc_empty(start, end) ==
    /\ nextCtx <= MaxCtx
    /\ Cardinality(registry) < MaxChunks
    /\ registry' = asan_giovese_alloc_insert(registry, start, start, nextCtx)
    /\ shadow' = InsertShadow(shadow, start, start)
    /\ nextCtx' = nextCtx + 1
    /\ checked' = FALSE
    /\ UNCHANGED <<enabled, report, run, proc>>

alloc(start, end) ==
    /\ nextCtx <= MaxCtx
    /\ Cardinality(registry) < MaxChunks
    /\ registry' = asan_giovese_alloc_insert(registry, start, end, nextCtx)
    /\ shadow' = InsertShadow(shadow, start, end)
    /\ nextCtx' = nextCtx + 1
    /\ checked' = FALSE
    /\ UNCHANGED <<enabled, report, run, proc>>

\* a variant of dealloc that goes on to record the free context after a
\* free that is not at the start of the chunk
dealloc_fallthrough(addr) ==
    \E ck \in asan_giovese_alloc_search(registry, addr) :
        /\ IF ck # NullChunk
             THEN /\ nextCtx <= MaxCtx
                  /\ registry' = (registry \ {ck}) \cup
                                     {[ck EXCEPT !.free_ctx = nextCtx]}
                  /\ nextCtx' = nextCtx + 1
                  /\ IF ck.start # addr
                       THEN asan_giovese_badfree(addr)
                       ELSE UNCHANGED <<report, run>>
             ELSE /\ asan_giovese_badfree(addr)
                  /\ UNCHANGED <<registry, nextCtx>>
        /\ checked' = FALSE
        /\ UNCHANGED <<enabled, shadow, proc>>

dealloc(addr) ==
    \E ck \in asan_giovese_alloc_search(registry, addr) :
        /\ IF ck # NullChunk
             THEN IF ck.start # addr
                    THEN \* Free not the start of the chunk
                         /\ asan_giovese_badfree(addr)
                         /\ UNCHANGED <<registry, nextCtx>>
                    ELSE /\ nextCtx <= MaxCtx
                         /\ registry' = (registry \ {ck}) \cup
                                            {[ck EXCEPT !.free_ctx = nextCtx]}
                         /\ nextCtx' = nextCtx + 1
                         /\ UNCHANGED <<report, run>>
             ELSE \* Free of wild ptr
                  /\ asan_giovese_badfree(addr)
                  /\ UNCHANGED <<registry, nextCtx>>
        /\ checked' = FALSE
        /\ UNCHANGED <<enabled, shadow, proc>>

is_poisoned(sh, addr, size) == asan_giovese_loadN(sh, g2h(addr), size) # 0

\* a variant of the shared body that does not look at the enabled flag
AccessAlways(failed, access_type, addr, size) ==
    /\ checked' = TRUE
    /\ IF failed # 0
         THEN asan_giovese_report_and_crash(access_type, addr, size)
         ELSE UNCHANGED <<report, run>>
    /\ UNCHANGED <<enabled, shadow, registry, nextCtx, proc>>

\* the body shared by read_1 .. write_n: the check is made only when the
\* helper is enabled, and a failed check goes to the reporter
Access(failed, access_type, addr, size) ==
    /\ checked' = enabled
    /\ IF enabled /\ failed # 0
         THEN asan_giovese_report_and_crash(access_type, addr, size)
         ELSE UNCHANGED <<report, run>>
    /\ UNCHANGED <<enabled, shadow, registry, nextCtx, proc>>

read_1(addr) == Access(asan_giovese_load1(shadow, g2h(addr)), 0, addr, 1)
read_2(addr) == Access(asan_giovese_load2(shadow, g2h(addr)), 0, addr, 2)
read_4(addr) == Access(asan_giovese_load4(shadow, g2h(addr)), 0, addr, 4)
read_8(addr) == Access(asan_giovese_load8(shadow, g2h(addr)), 0, addr, 8)
read_n(addr, size) == Access(asan_giovese_loadN(shadow, g2h(addr), size), 0, addr, size)
write_1(addr) == Access(asan_giovese_store1(shadow, g2h(addr)), 1, addr, 1)
write_2(addr) == Access(asan_giovese_store2(shadow, g2h(addr)), 1, addr, 2)
write_4(addr) == Access(asan_giovese_store4(shadow, g2h(addr)), 1, addr, 4)
write_8(addr) == Access(asan_giovese_store8(shadow, g2h(addr)), 1, addr, 8)
\* a variant of write_n that hands the reporter the access kind of a load
write_n_as_load(addr, size) ==
    Access(asan_giovese_storeN(shadow, g2h(addr), size), 0, addr, size)

write_n(addr, size) == Access(asan_giovese_storeN(shadow, g2h(addr), size), 1, addr, size)

poison(addr, size, tag) ==
    /\ shadow' = asan_giovese_poison_region(shadow, g2h(addr), size, tag)
    /\ checked' = FALSE
    /\ UNCHANGED <<enabled, registry, nextCtx, report, run, proc>>

\* a variant of unpoison that calls the poisoning routine
unpoison_as_poison(addr, size) ==
    /\ shadow' = asan_giovese_poison_region(shadow, g2h(addr), size, User)
    /\ checked' = FALSE
    /\ UNCHANGED <<enabled, registry, nextCtx, report, run, proc>>

unpoison(addr, size) ==
    /\ shadow' = asan_giovese_unpoison_region(shadow, g2h(addr), size)
    /\ checked' = FALSE
    /\ UNCHANGED <<enabled, registry, nextCtx, report, run, proc>>

\* a variant of reset that also switches the helper back on
reset_reenables ==
    /\ registry' = asan_giovese_alloc_remove(registry, 0, U64Max)
    /\ nextCtx' = 1
    /\ checked' = FALSE
    /\ enabled' = TRUE
    /\ UNCHANGED shadow

reset ==
    /\ registry' = asan_giovese_alloc_remove(registry, 0, U64Max)
    /\ nextCtx' = 1
    /\ checked' = FALSE
    /\ UNCHANGED <<enabled, shadow>>

(***************************************************************************)
(* The execution hooks.  The emulator calls them for every instrumented    *)
(* guest load and store while a run is in progress.                        *)
(***************************************************************************)
Running == run = "running" /\ proc = "alive"

InMemory(addr, size) == addr >= 0 /\ addr + size <= MemTop

Hook(name) == Running /\ op' = name /\ ret' = NoRet

trace_read1_asan(addr) == Hook("trace_read1_asan") /\ read_1(addr)
trace_read2_asan(addr) == Hook("trace_read2_asan") /\ read_2(addr)
trace_read4_asan(addr) == Hook("trace_read4_asan") /\ read_4(addr)
trace_read8_asan(addr) == Hook("trace_read8_asan") /\ read_8(addr)
trace_read_n_asan(addr, size) == Hook("trace_read_n_asan") /\ read_n(addr, size)
trace_write1_asan(addr) == Hook("trace_write1_asan") /\ write_1(addr)
trace_write2_asan(addr) == Hook("trace_write2_asan") /\ write_2(addr)
trace_write4_asan(addr) == Hook("trace_write4_asan") /\ write_4(addr)
trace_write8_asan(addr) == Hook("trace_write8_asan") /\ write_8(addr)
trace_write_n_asan(addr, size) == Hook("trace_write_n_asan") /\ read_n(addr, size)

(***************************************************************************)
(* The fake syscall dispatcher.                                            *)
(***************************************************************************)
ActionName(a0) ==
    CASE a0 = CheckLoad -> "CheckLoad"
      [] a0 = CheckStore -> "CheckStore"
      [] a0 = Poison -> "Poison"
      [] a0 = UserPoison -> "UserPoison"
      [] a0 = UnPoison -> "UnPoison"
      [] a0 = IsPoison -> "IsPoison"
      [] a0 = Alloc -> "Alloc"
      [] a0 = Dealloc -> "Dealloc"
      [] a0 = Enable -> "Enable"
      [] a0 = Disable -> "Disable"
      [] a0 = SwapState -> "SwapState"
      [] OTHER -> "invalid"

\* a failed expect()/unwrap(): the thread panics inside the hook
Panic ==
    /\ proc' = "panicked"
    /\ ret' = NoRet
    /\ checked' = FALSE
    /\ UNCHANGED <<enabled, shadow, registry, nextCtx, report, run>>

\* SyscallHookResult::new(Some(r)), which is reached only when the handler
\* came back
Handled(r) == ret' = IF run' = "crashed" THEN NoRet ELSE r

\* what the IsPoison arm hands back when the shadow map is sh
IsPoisonRet(sh, a1, a2) == IF is_poisoned(sh, a1, a2) THEN "Some(1)" ELSE "Some(0)"

\* a variant of the IsPoison arm that also clears the range it looked at
SysIsPoisonClears(a1, a2) ==
    /\ checked' = TRUE
    /\ ret' = IsPoisonRet(shadow, a1, a2)
    /\ shadow' = asan_giovese_unpoison_region(shadow, g2h(a1), a2)
    /\ UNCHANGED <<enabled, registry, nextCtx, report, run, proc>>

\* the IsPoison arm of the dispatcher
SysIsPoison(a1, a2) ==
    /\ checked' = TRUE
    /\ ret' = IsPoisonRet(shadow, a1, a2)
    /\ UNCHANGED <<enabled, shadow, registry, nextCtx, report, run, proc>>

\* the match on the action number (asan.rs:583-619) and the value handed back
match_action(a0, a1, a2, a3) ==
    /\ op' = ActionName(a0)
    /\ IF a0 \notin QasanAction
         THEN Panic
         ELSE CASE a0 = CheckLoad -> read_n(a1, a2) /\ Handled("Some(0)")
                [] a0 = CheckStore -> write_n(a1, a2) /\ Handled("Some(0)")
                [] a0 = Poison ->
                      IF a3 % 256 \in PoisonKind
                        THEN poison(a1, a2, a3 % 256) /\ Handled("Some(0)")
                        ELSE Panic
                [] a0 = UserPoison -> poison(a1, a2, User) /\ Handled("Some(0)")
                [] a0 = UnPoison -> unpoison(a1, a2) /\ Handled("Some(0)")
                [] a0 = IsPoison -> SysIsPoison(a1, a2)
                [] a0 = Alloc -> alloc(a1, a2) /\ Handled("Some(0)")
                [] a0 = Dealloc -> dealloc(a1) /\ Handled("Some(0)")
                [] a0 = Enable -> set_enabled(TRUE) /\ Handled("Some(0)")
                [] a0 = Disable -> set_enabled(FALSE) /\ Handled("Some(0)")
                [] a0 = SwapState -> set_enabled(~enabled) /\ Handled("Some(0)")

\* a variant of the dispatcher that does not look at the syscall number
qasan_fake_syscall_any_nr(sys_num, a0, a1, a2, a3) ==
    /\ Running
    /\ match_action(a0, a1, a2, a3)

qasan_fake_syscall(sys_num, a0, a1, a2, a3) ==
    /\ Running
    /\ IF sys_num = QASAN_FAKESYS_NR
         THEN match_action(a0, a1, a2, a3)
         ELSE /\ op' = "syscall"
              /\ ret' = "None"
              /\ checked' = FALSE
              /\ UNCHANGED <<enabled, shadow, registry, nextCtx, report, run, proc>>

\* QemuHelper::post_exec: called when a run is over, crashed or not; the next
\* run starts from what it leaves
post_exec ==
    /\ proc = "alive"
    /\ op' = "post_exec"
    /\ reset
    /\ run' = "running"
    /\ report' = NoReport
    /\ ret' = NoRet
    /\ UNCHANGED proc

(***************************************************************************)
(* What the guest runtime may ask for: ranges inside the modelled memory,  *)
(* and for Alloc a chunk with start < end, room for both redzones, and no  *)
(* overlap with a chunk of the registry (the precondition of insert).      *)
(***************************************************************************)
AllocPre(start, end) ==
    /\ start < end
    /\ start >= RedzoneSize
    /\ end + RedzoneSize <= MemTop
    /\ \A ck \in registry : end <= ck.start \/ ck.end <= start

SyscallPre(a0, a1, a2) ==
    CASE a0 \in {CheckLoad, CheckStore, Poison, UserPoison, UnPoison, IsPoison} ->
            a1 \in AddrInputs /\ a2 \in SizeInputs /\ InMemory(a1, a2)
      [] a0 = Alloc -> a1 \in AddrInputs /\ a2 \in AddrInputs /\ AllocPre(a1, a2)
      [] a0 = Dealloc -> a1 \in AddrInputs /\ a2 = 0
      [] OTHER -> a1 = 0 /\ a2 = 0

\* the helper as QemuAsanHelper::new leaves it (asan.rs:176-182), over a
\* runtime that nothing has touched yet
FreshHelper ==
    /\ enabled = TRUE
    /\ shadow = [c \in ShadowCells |-> Valid]
    /\ registry = {}
    /\ nextCtx = 1
    /\ run = "running"
    /\ proc = "alive"
    /\ report = NoReport
    /\ ret = NoRet
    /\ checked = FALSE

\* the callbacks QemuHelper::init registers (asan.rs:423-436); the two
\* generation hooks are commented out there
RegisteredByInit ==
    {"read8_execution", "read4_execution", "read2_execution", "read1_execution",
     "read_n_execution", "write8_execution", "write4_execution",
     "write2_execution", "write1_execution", "write_n_execution", "syscalls"}

\* QemuInstrumentationFilter::None
NoFilter == [kind |-> "None", ranges |-> {}]

\* start-up is over: init_with_asan ran, new() built the helper and
\* QemuHelper::init registered its callbacks
StartedUp ==
    /\ ASAN_INITED = TRUE
    /\ args = <<>>
    /\ env = <<>>
    /\ helper = "built"
    /\ filter = NoFilter
    /\ hooks = RegisteredByInit

\* PushStageHelper::new (push/mod.rs:136-148), with the shared state set
NewPushStageHelper ==
    /\ initialized = FALSE
    /\ errored = FALSE
    /\ exit_kind = "None"
    /\ last_monitor_time = 0
    /\ shared_state = "Some"
    /\ calls = <<>>
    /\ returned = <<"-">>

\* no generalized input has been built
NoGeneralizedInput ==
    /\ slice = <<>>
    /\ metadata = <<>>
    /\ collected = <<>>
    /\ genStep = "-"

Init ==
    /\ NoGeneralizedInput
    /\ StartedUp
    /\ NewPushStageHelper
    /\ FreshHelper
    /\ op = "new"

FixedHook ==
    \E addr \in AddrInputs :
        \/ InMemory(addr, 1) /\ trace_read1_asan(addr)
        \/ InMemory(addr, 2) /\ trace_read2_asan(addr)
        \/ InMemory(addr, 4) /\ trace_read4_asan(addr)
        \/ InMemory(addr, 8) /\ trace_read8_asan(addr)
        \/ InMemory(addr, 1) /\ trace_write1_asan(addr)
        \/ InMemory(addr, 2) /\ trace_write2_asan(addr)
        \/ InMemory(addr, 4) /\ trace_write4_asan(addr)
        \/ InMemory(addr, 8) /\ trace_write8_asan(addr)

NHook ==
    \E addr \in AddrInputs, size \in SizeInputs :
        /\ InMemory(addr, size)
        /\ \/ trace_read_n_asan(addr, size)
           \/ trace_write_n_asan(addr, size)

FakeSyscall ==
    \E a0 \in QasanAction \cup BadActions, a1 \in AddrInputs \cup {0},
       a2 \in AddrInputs \cup SizeInputs, a3 \in TagInputs :
        /\ SyscallPre(a0, a1, a2)
        /\ a0 # Poison => a3 = Valid
        /\ qasan_fake_syscall(QASAN_FAKESYS_NR, a0, a1, a2, a3)

OtherSyscall ==
    \E sys_num \in OtherSysNrs, a0 \in {Alloc} \cup BadActions :
        qasan_fake_syscall(sys_num, a0, 8, 16, 0)

Next ==
    \/ FixedHook /\ UNCHANGED <<lifeVars, pushVars, genVars>>
    \/ NHook /\ UNCHANGED <<lifeVars, pushVars, genVars>>
    \/ FakeSyscall /\ UNCHANGED <<lifeVars, pushVars, genVars>>
    \/ OtherSyscall /\ UNCHANGED <<lifeVars, pushVars, genVars>>
    \/ post_exec /\ UNCHANGED <<lifeVars, pushVars, genVars>>

Spec == Init /\ [][Next]_vars

(***************************************************************************)
(* Start-up: init_with_asan, the two constructors of QemuAsanHelper,       *)
(* QemuHelper::init, and the first accesses of the guest.                  *)
(*                                                                         *)
(* A string is a sequence of words, the comma being a word of its own, so  *)
(* that v.split(",") and join(",") have something to do.                   *)
(***************************************************************************)
\* the path of libqasan.so next to the running binary
asan_lib == "libqasan.so"

dashE == <<"-E">>

\* e.starts_with("LD_PRELOAD=")
starts_with_LD_PRELOAD(e) == Len(e) > 0 /\ Head(e) = "LD_PRELOAD="

\* the closure add_asan: "LD_PRELOAD=" + asan_lib + " " + the rest of e
add_asan(e) == <<"LD_PRELOAD=", asan_lib, " ">> \o Tail(e)

\* the argument vectors and environment lists a caller may hand over
ArgInputs ==
    { <<>>,
      << <<"qemu">>, <<"prog">> >>,
      << <<"qemu">>, dashE, <<"LD_PRELOAD=", "a.so">>, <<"prog">> >>,
      << <<"qemu">>, dashE, <<"X=1">>, <<"prog">>, dashE >> }

EnvInputs ==
    { <<>>,
      << <<"LD_PRELOAD", <<"b.so">> >> >>,
      << <<"QEMU_SET_ENV", <<"X=1", ",", "LD_PRELOAD=", "c.so">> >> >>,
      << <<"HOME", <<"/root">> >>, <<"QEMU_SET_ENV", <<"X=1", ",">> >> >>,
      << <<"QEMU_SET_ENV", <<>> >> >> }

\* v.split(","): the items between the commas; an empty string has one item,
\* the empty one
RECURSIVE split(_)
split(v) ==
    IF v = <<>> THEN << <<>> >>
    ELSE LET rest == split(Tail(v))
         IN  IF Head(v) = "," THEN << <<>> >> \o rest
             ELSE << <<Head(v)>> \o rest[1] >> \o Tail(rest)

\* new_v.join(",")
RECURSIVE join(_)
join(items) ==
    IF Len(items) = 0 THEN <<>>
    ELSE IF Len(items) = 1 THEN items[1]
    ELSE items[1] \o <<",">> \o join(Tail(items))

\* the rewriting of one QEMU_SET_ENV value (asan.rs:134-143)
SetEnvValue(v) ==
    LET items == split(v)
    IN  join([j \in 1..Len(items) |->
                IF starts_with_LD_PRELOAD(items[j]) THEN add_asan(items[j])
                ELSE items[j]])

\* the loop over env (asan.rs:132-144)
EnvRewritten(e) ==
    [i \in 1..Len(e) |->
        IF e[i][1] = "QEMU_SET_ENV" THEN <<e[i][1], SetEnvValue(e[i][2])>> ELSE e[i]]

\* the loop over args (asan.rs:145-152)
ArgsRewritten(a) ==
    [i \in 1..Len(a) |->
        IF i > 1 /\ a[i - 1] = dashE /\ starts_with_LD_PRELOAD(a[i])
          THEN add_asan(a[i]) ELSE a[i]]

\* the flag added, after both loops
Added(a, e) ==
    \/ \E i \in 1..Len(e) :
          /\ e[i][1] = "QEMU_SET_ENV"
          /\ \E j \in 1..Len(split(e[i][2])) :
                starts_with_LD_PRELOAD(split(e[i][2])[j])
    \/ \E i \in 2..Len(a) : a[i - 1] = dashE /\ starts_with_LD_PRELOAD(a[i])

\* a variant of InsertPreload that makes the two insertions in the other order
InsertPreloadSwapped(a) == <<Head(a), <<"LD_PRELOAD=", asan_lib>>, dashE>> \o Tail(a)

\* the two args.insert(1, ..) of asan.rs:154-157
InsertPreload(a) == <<Head(a), dashE, <<"LD_PRELOAD=", asan_lib>>>> \o Tail(a)

init_with_asan ==
    /\ proc = "alive"
    /\ ~ASAN_INITED
    /\ op' = "init_with_asan"
    /\ IF args = <<>>
         THEN \* assert!(!args.is_empty())
              /\ proc' = "panicked"
              /\ UNCHANGED <<args, env, ASAN_INITED>>
         ELSE /\ env' = EnvRewritten(env)
              /\ args' = IF Added(args, env) THEN ArgsRewritten(args)
                         ELSE InsertPreload(ArgsRewritten(args))
              /\ ASAN_INITED' = TRUE
              /\ UNCHANGED proc
    /\ UNCHANGED <<enabled, shadow, registry, nextCtx, run, report, ret, checked>>
    /\ UNCHANGED <<helper, filter, hooks>>

\* QemuAsanHelper::new
new ==
    /\ proc = "alive"
    /\ helper = "none"
    /\ op' = "new"
    /\ IF ASAN_INITED = TRUE
         THEN /\ helper' = "built"
              /\ enabled' = TRUE
              /\ filter' = NoFilter
              /\ UNCHANGED proc
         ELSE \* the assert! of asan.rs:177
              /\ proc' = "panicked"
              /\ UNCHANGED <<helper, enabled, filter>>
    /\ UNCHANGED <<shadow, registry, nextCtx, run, report, ret, checked>>
    /\ UNCHANGED <<ASAN_INITED, args, env, hooks>>

\* QemuAsanHelper::with_instrumentation_filter
with_instrumentation_filter(f) ==
    /\ proc = "alive"
    /\ helper = "none"
    /\ op' = "with_instrumentation_filter"
    /\ helper' = "built"
    /\ enabled' = TRUE
    /\ filter' = f
    /\ UNCHANGED <<shadow, registry, nextCtx, run, proc, report, ret, checked>>
    /\ UNCHANGED <<ASAN_INITED, args, env, hooks>>

\* QemuInstrumentationFilter::allowed
allowed(f, addr) ==
    CASE f.kind = "None" -> TRUE
      [] f.kind = "AllowList" -> \E r \in f.ranges : r[1] <= addr /\ addr < r[2]
      [] f.kind = "DenyList" -> ~\E r \in f.ranges : r[1] <= addr /\ addr < r[2]

must_instrument(addr) == allowed(filter, addr)

\* the translation-time predicate: Some(pc), or None for "skip"
gen_readwrite_asan(pc) == IF must_instrument(pc) THEN <<"Some", pc>> ELSE <<"None">>

\* QemuHelper::init: the callbacks are handed to the executor
QemuHelper_init ==
    /\ proc = "alive"
    /\ helper = "built"
    /\ hooks = {}
    /\ op' = "init"
    /\ hooks' = RegisteredByInit
    /\ UNCHANGED <<enabled, shadow, registry, nextCtx, run, proc, report, ret, checked>>
    /\ UNCHANGED <<ASAN_INITED, args, env, helper, filter>>

\* the emulator translating the instruction at pc: it emits the call of the
\* execution-time callback unless a registered generation predicate says skip
InstrumentationEmitted(gen, pc) ==
    IF gen \in hooks THEN gen_readwrite_asan(pc) # <<"None">> ELSE TRUE

\* the guest instruction at pc loads one byte from addr
GuestLoadAt(pc, addr) ==
    /\ "read1_execution" \in hooks
    /\ IF InstrumentationEmitted("read_generation", pc)
         THEN trace_read1_asan(addr)
         ELSE Running /\ op' = "load" /\ ret' = NoRet /\ checked' = FALSE
              /\ UNCHANGED <<enabled, shadow, registry, nextCtx, run, proc, report>>
    /\ UNCHANGED <<lifeVars, pushVars, genVars>>

\* the guest instruction at pc stores eight bytes to addr
GuestStoreAt(pc, addr) ==
    /\ "write8_execution" \in hooks
    /\ IF InstrumentationEmitted("write_generation", pc)
         THEN trace_write8_asan(addr)
         ELSE Running /\ op' = "store" /\ ret' = NoRet /\ checked' = FALSE
              /\ UNCHANGED <<enabled, shadow, registry, nextCtx, run, proc, report>>
    /\ UNCHANGED <<lifeVars, pushVars, genVars>>

\* the instrumentation filters a caller may hand over, and the addresses of
\* the guest's instructions
FilterInputs ==
    { NoFilter,
      [kind |-> "AllowList", ranges |-> {<<1, 2>>}],
      [kind |-> "DenyList", ranges |-> {<<1, 2>>}] }
PcInputs == {1, 2}

WithFilter == \E f \in FilterInputs : with_instrumentation_filter(f)

GuestLoad  == \E pc \in PcInputs, addr \in {8, 16} : GuestLoadAt(pc, addr)
GuestStore == \E pc \in PcInputs, addr \in {8, 16} : GuestStoreAt(pc, addr)

\* the guest runtime poisons or clears the first cell past the redzone
GuestPoison ==
    /\ "syscalls" \in hooks
    /\ \E a0 \in {UserPoison, UnPoison} :
          qasan_fake_syscall(QASAN_FAKESYS_NR, a0, 8, 8, 0)
    /\ UNCHANGED <<lifeVars, pushVars, genVars>>

\* guest addresses that no host memory backs, and what the runtime's lookup
\* of a shadow cell that does not exist can come to: a tag that passes, a tag
\* that fails, or a fault of the process
UnmappedInputs == {MemTop + CellSize}
LookupOutcomes == {"pass", "fail", "fault"}

\* read_1 at an address outside the guest's memory: g2h has no failure case,
\* so the host address it makes goes to asan_giovese_load1 as it is
read_1_unmapped(addr, outcome) ==
    IF enabled /\ outcome = "fault"
      THEN /\ proc' = "faulted"
           /\ checked' = TRUE
           /\ UNCHANGED <<enabled, shadow, registry, nextCtx, report, run>>
      ELSE Access(IF outcome = "fail" THEN 1 ELSE 0, 0, addr, 1)

\* the guest loads one byte from an address that cannot be translated
GuestLoadUnmappedAt(addr, outcome) ==
    /\ "read1_execution" \in hooks
    /\ Hook("trace_read1_asan")
    /\ read_1_unmapped(addr, outcome)
    /\ UNCHANGED <<lifeVars, pushVars, genVars>>

GuestLoadUnmapped ==
    \E addr \in UnmappedInputs, outcome \in LookupOutcomes :
        GuestLoadUnmappedAt(addr, outcome)

\* the process before start-up: no runtime, no helper, nothing registered
InitStartUp ==
    /\ NoGeneralizedInput
    /\ FreshHelper
    /\ NewPushStageHelper
    /\ op = "-"
    /\ ASAN_INITED = FALSE
    /\ args \in ArgInputs
    /\ env \in EnvInputs
    /\ helper = "none"
    /\ filter = NoFilter
    /\ hooks = {}

NextStartUp ==
    \/ init_with_asan /\ UNCHANGED <<pushVars, genVars>>
    \/ new /\ UNCHANGED <<pushVars, genVars>>
    \/ WithFilter /\ UNCHANGED <<pushVars, genVars>>
    \/ QemuHelper_init /\ UNCHANGED <<pushVars, genVars>>
    \/ GuestLoad
    \/ GuestStore
    \/ GuestLoadUnmapped
    \/ GuestPoison

SpecInit == InitStartUp /\ [][NextStartUp]_vars

(***************************************************************************)
(* The push stage: PushStageHelper and PushStage::next_std of              *)
(* libafl/src/stages/push/mod.rs.  The callbacks init, pre_exec,           *)
(* post_exec and deinit belong to the stage that implements the trait and  *)
(* maybe_report_monitor to the fuzzer: what they hand back is an input of  *)
(* each call.                                                              *)
(***************************************************************************)
\* the latest time the monitor clock shows
MaxTime == 2
\* the test cases pre_exec can hand out
MaxInput == 2

\* Result<(), Error> of init, post_exec and deinit
StepResults == {"Ok", "Err"}
\* Option<Result<I, Error>> of pre_exec
PreResults ==
    {<<"None">>, <<"Some", "Err", "pre_exec">>} \cup
    {<<"Some", "Ok", i>> : i \in 1..MaxInput}
\* Result<Duration, Error> of maybe_report_monitor
MonitorResults == {<<"Err">>} \cup {<<"Ok", t>> : t \in 0..MaxTime}
\* ExitKind
ExitKinds == {"Ok", "Crash"}

\* everything of the sanitizer but the process itself
asanRest == <<enabled, shadow, registry, nextCtx, run, report, ret, checked, op>>

\* PushStageHelper::set_shared_state
set_shared_state ==
    /\ proc = "alive"
    /\ shared_state' = "Some"
    /\ UNCHANGED <<initialized, errored, exit_kind, last_monitor_time, calls, returned>>
    /\ UNCHANGED <<asanVars, lifeVars, genVars>>

\* PushStageHelper::take_shared_state
take_shared_state ==
    /\ proc = "alive"
    /\ shared_state' = "None"
    /\ UNCHANGED <<initialized, errored, exit_kind, last_monitor_time, calls, returned>>
    /\ UNCHANGED <<asanVars, lifeVars, genVars>>

\* the executor runs the test case that was handed out and leaves the exit
\* kind of the run in the cell it shares with the helper
execute(kind) ==
    /\ proc = "alive"
    /\ returned[1] = "Some" /\ returned[2] = "Ok"
    /\ exit_kind = "None"
    /\ exit_kind' = kind
    /\ UNCHANGED <<initialized, errored, last_monitor_time, shared_state, calls, returned>>
    /\ UNCHANGED <<asanVars, lifeVars, genVars>>

\* an unwrap() of None inside next_std: the call unwinds, and the shared
\* state it took is gone with it
UnwrapPanic ==
    /\ proc' = "panicked"
    /\ shared_state' = "None"
    /\ UNCHANGED <<initialized, errored, exit_kind, last_monitor_time, calls, returned>>

\* a variant of ReturnErr that does not put the shared state back
ReturnErrDropsState(called, from) ==
    /\ errored' = TRUE
    /\ shared_state' = "None"
    /\ calls' = called
    /\ returned' = <<"Some", "Err", from>>

\* the three early returns of next_std: errored = true, the shared state is
\* put back, Some(Err(err)) is handed back
ReturnErr(called, from) ==
    /\ errored' = TRUE
    /\ shared_state' = "Some"
    /\ calls' = called
    /\ returned' = <<"Some", "Err", from>>

\* a variant of stage_done that leaves the initialized flag as it is
stage_done_keeps_flag(first, pre_r, deinit_r, mon_r) ==
    /\ UNCHANGED <<initialized, exit_kind>>
    /\ IF deinit_r = "Err"
         THEN /\ ReturnErr(<<first, <<"pre_exec">>, <<"deinit">>>>, "deinit")
              /\ UNCHANGED last_monitor_time
         ELSE IF mon_r = <<"Err">>
           THEN /\ ReturnErr(<<first, <<"pre_exec">>, <<"deinit">>,
                               <<"maybe_report_monitor">>>>,
                             "maybe_report_monitor")
                /\ UNCHANGED last_monitor_time
           ELSE /\ last_monitor_time' = mon_r[2]
                /\ shared_state' = "Some"
                /\ errored' = FALSE
                /\ calls' = <<first, <<"pre_exec">>, <<"deinit">>,
                              <<"maybe_report_monitor">>>>
                /\ returned' = pre_r

\* next_std after pre_exec handed back None (push/mod.rs:265-292): the stage
\* is done, deinit and the monitor report follow
stage_done(first, pre_r, deinit_r, mon_r) ==
    /\ initialized' = FALSE
    /\ UNCHANGED exit_kind
    /\ IF deinit_r = "Err"
         THEN /\ ReturnErr(<<first, <<"pre_exec">>, <<"deinit">>>>, "deinit")
              /\ UNCHANGED last_monitor_time
         ELSE IF mon_r = <<"Err">>
           THEN /\ ReturnErr(<<first, <<"pre_exec">>, <<"deinit">>,
                               <<"maybe_report_monitor">>>>,
                             "maybe_report_monitor")
                /\ UNCHANGED last_monitor_time
           ELSE /\ last_monitor_time' = mon_r[2]
                /\ shared_state' = "Some"
                /\ errored' = FALSE
                /\ calls' = <<first, <<"pre_exec">>, <<"deinit">>,
                              <<"maybe_report_monitor">>>>
                /\ returned' = pre_r

\* a variant of hand_out that leaves the stored exit kind as it is
hand_out_keeps_exit_kind(first, pre_r) ==
    /\ shared_state' = "Some"
    /\ errored' = FALSE
    /\ calls' = <<first, <<"pre_exec">>>>
    /\ returned' = pre_r
    /\ UNCHANGED <<initialized, last_monitor_time, exit_kind>>

\* next_std after pre_exec handed back Some(_) (push/mod.rs:293-298)
hand_out(first, pre_r) ==
    /\ exit_kind' = "None"
    /\ shared_state' = "Some"
    /\ errored' = FALSE
    /\ calls' = <<first, <<"pre_exec">>>>
    /\ returned' = pre_r
    /\ UNCHANGED <<initialized, last_monitor_time>>

\* PushStage::next_std; step_r is what init or post_exec hands back
next_std(step_r, pre_r, deinit_r, mon_r) ==
    /\ proc = "alive"
    /\ UNCHANGED <<asanRest, lifeVars, genVars>>
    /\ IF shared_state = "None" \/ (initialized /\ exit_kind = "None")
         THEN UnwrapPanic
         ELSE LET first == IF initialized THEN <<"post_exec", exit_kind>>
                                          ELSE <<"init">>
              IN  /\ UNCHANGED proc
                  /\ IF step_r = "Err"
                       THEN /\ ReturnErr(<<first>>, first[1])
                            /\ UNCHANGED <<initialized, exit_kind, last_monitor_time>>
                       ELSE IF pre_r = <<"None">>
                         THEN stage_done(first, pre_r, deinit_r, mon_r)
                         ELSE hand_out(first, pre_r)

\* the stage that implements the trait writes the public field initialized
\* of its helper between two calls
write_initialized(b) ==
    /\ proc = "alive"
    /\ initialized # b
    /\ initialized' = b
    /\ UNCHANGED <<errored, exit_kind, last_monitor_time, shared_state, calls, returned>>
    /\ UNCHANGED <<asanVars, lifeVars, genVars>>

\* a caller draining the stage: the monitor clock never runs backwards
NextStd ==
    \E step_r \in StepResults, pre_r \in PreResults, deinit_r \in StepResults,
       mon_r \in MonitorResults :
        /\ mon_r # <<"Err">> => mon_r[2] >= last_monitor_time
        /\ next_std(step_r, pre_r, deinit_r, mon_r)

Execute == \E kind \in ExitKinds : execute(kind)

InitPush ==
    /\ NoGeneralizedInput
    /\ StartedUp
    /\ FreshHelper
    /\ op = "new"
    /\ NewPushStageHelper

WriteInitialized == \E b \in BOOLEAN : write_initialized(b)

NextPush ==
    \/ NextStd
    \/ Execute
    \/ WriteInitialized
    \/ take_shared_state
    \/ set_shared_state

SpecPush == InitPush /\ [][NextPush]_vars

(***************************************************************************)
(* The generalized input (libafl/src/inputs/generalized.rs).               *)
(***************************************************************************)
\* the longest slice handed to generalized_from_options
MaxSlice == 4
\* the largest byte value in a slice
MaxByte == 1

\* Option<u8>
None == <<"None">>
Some(b) == <<"Some", b>>
OptionU8 == {None} \cup {Some(b) : b \in 0..MaxByte}

\* enum GeneralizedItem
Gap == <<"Gap">>
Bytes(bytes) == <<"Bytes", bytes>>

\* the slices the functions are applied to: every one up to MaxSlice long
SliceInputs == UNION {[1..n -> OptionU8] : n \in 0..MaxSlice}

\* a variant of push_bytes that forgets the bytes gathered so far
push_bytes_dropped(generalized, bytes) == generalized

\* if !bytes.is_empty() { generalized.push(Bytes(bytes)) }
push_bytes(generalized, bytes) ==
    IF bytes # <<>> THEN Append(generalized, Bytes(bytes)) ELSE generalized

\* the loop `for e in v` of generalized_from_options, from the loop state
\* (generalized, bytes); the result is the loop state after the last element
RECURSIVE for_e_in_v(_, _, _)
for_e_in_v(v, generalized, bytes) ==
    IF v = <<>>
      THEN <<generalized, bytes>>
      ELSE LET e == Head(v)
           IN  IF e = None
                 THEN for_e_in_v(Tail(v),
                                 Append(push_bytes(generalized, bytes), Gap),
                                 <<>>)
                 ELSE for_e_in_v(Tail(v), generalized, Append(bytes, e[2]))

\* if v.first() != Some(&None) { generalized.push(Gap) }
opening_gap(v) == IF v = <<>> \/ Head(v) # None THEN <<Gap>> ELSE <<>>

\* if generalized.last() != Some(&Gap) { generalized.push(Gap) }
closing_gap(generalized) ==
    IF generalized = <<>> \/ generalized[Len(generalized)] # Gap
      THEN Append(generalized, Gap)
      ELSE generalized

\* a variant of generalized_from_options that pushes no closing Gap
from_options_no_closing_gap(v) ==
    LET after == for_e_in_v(v, opening_gap(v), <<>>)
    IN  push_bytes(after[1], after[2])

\* GeneralizedInputMetadata::generalized_from_options
generalized_from_options(v) ==
    LET after == for_e_in_v(v, opening_gap(v), <<>>)
    IN  closing_gap(push_bytes(after[1], after[2]))

\* GeneralizedInputMetadata::generalized_to_bytes: the Bytes items, flattened
RECURSIVE generalized_to_bytes(_)
generalized_to_bytes(generalized) ==
    IF generalized = <<>>
      THEN <<>>
      ELSE LET item == Head(generalized)
           IN  (IF item = Gap THEN <<>> ELSE item[2])
                  \o generalized_to_bytes(Tail(generalized))

\* a caller builds the metadata of its slice
FromOptions ==
    /\ genStep = "slice"
    /\ metadata' = generalized_from_options(slice)
    /\ genStep' = "from_options"
    /\ UNCHANGED <<slice, collected>>
    /\ UNCHANGED <<asanVars, lifeVars, pushVars>>

\* and takes the bytes back out of it
ToBytes ==
    /\ genStep = "from_options"
    /\ collected' = generalized_to_bytes(metadata)
    /\ genStep' = "to_bytes"
    /\ UNCHANGED <<slice, metadata>>
    /\ UNCHANGED <<asanVars, lifeVars, pushVars>>

InitGen ==
    /\ StartedUp
    /\ FreshHelper
    /\ op = "new"
    /\ NewPushStageHelper
    /\ slice \in SliceInputs
    /\ metadata = <<>>
    /\ collected = <<>>
    /\ genStep = "slice"

NextGen ==
    \/ FromOptions
    \/ ToBytes

SpecGen == InitGen /\ [][NextGen]_vars


(***************************************************************************)
(* Properties.                                                             *)
(***************************************************************************)
FakeSys(a0, a1, a2, a3) == qasan_fake_syscall(QASAN_FAKESYS_NR, a0, a1, a2, a3)

\* some byte of the guest range [addr, addr+size) is not accessible
Poisoned(sh, addr, size) == \E b \in addr..(addr + size - 1) : ~Accessible(sh, g2h(b))

\* C1: when the N-byte write hook reports a failed check, the report carries
\* access kind 1 (store): the hook went to write_n, not to read_n.
C1_WriteNHookReportsStore ==
    (op = "trace_write_n_asan" /\ report.kind = "access") => report.access_type = 1

\* the hooks and handlers that call read_k or write_k
AccessOps ==
    {"trace_read1_asan", "trace_read2_asan", "trace_read4_asan", "trace_read8_asan",
     "trace_read_n_asan", "trace_write1_asan", "trace_write2_asan",
     "trace_write4_asan", "trace_write8_asan", "trace_write_n_asan",
     "CheckLoad", "CheckStore"}

\* what C2 asks of one call of an entry point at (addr, size)
SuppressOrReport(addr, size) ==
    /\ ~enabled => (report' = report /\ run' = run /\ checked' = FALSE)
    /\ (enabled /\ Poisoned(shadow, addr, size)) =>
           (report'.kind = "access" /\ report'.addr = addr /\ run' = "crashed")

\* C2: for each of the ten entry points read_k/write_k, in every state that
\* Enable/Disable/SwapState can lead to: a call made while the helper is
\* disabled reports nothing and does not consult the shadow map, and a call
\* made while it is enabled on a range that holds a poisoned byte is reported.
C2_DisableSuppressesChecks ==
    [][op' \in AccessOps => \A addr \in AddrInputs :
          /\ trace_read1_asan(addr) => SuppressOrReport(addr, 1)
          /\ trace_read2_asan(addr) => SuppressOrReport(addr, 2)
          /\ trace_read4_asan(addr) => SuppressOrReport(addr, 4)
          /\ trace_read8_asan(addr) => SuppressOrReport(addr, 8)
          /\ trace_write1_asan(addr) => SuppressOrReport(addr, 1)
          /\ trace_write2_asan(addr) => SuppressOrReport(addr, 2)
          /\ trace_write4_asan(addr) => SuppressOrReport(addr, 4)
          /\ trace_write8_asan(addr) => SuppressOrReport(addr, 8)
          /\ \A size \in SizeInputs :
                /\ trace_read_n_asan(addr, size) => SuppressOrReport(addr, size)
                /\ trace_write_n_asan(addr, size) => SuppressOrReport(addr, size)
                /\ FakeSys(CheckLoad, addr, size, 0) => SuppressOrReport(addr, size)
                /\ FakeSys(CheckStore, addr, size, 0) => SuppressOrReport(addr, size)
      ]_vars

\* C2 witness: the helper is disabled, every address the guest uses is
\* poisoned, a store hook has just run, and nothing was reported or checked.
C2_Witness ==
    /\ ~enabled
    /\ op = "trace_write8_asan"
    /\ \A addr \in AddrInputs : Poisoned(shadow, addr, 1)
    /\ report = NoReport
    /\ run = "running"
    /\ ~checked

\* addr lies strictly inside a live chunk
InteriorOfLive(reg, addr) ==
    \E ck \in reg : ck.free_ctx = NULL /\ ck.start < addr /\ addr < ck.end

\* addr belongs to no chunk of the registry
InNoChunk(reg, addr) == \A ck \in reg : ~(ck.start <= addr /\ addr < ck.end)

C4_FreedPayloadIsPoisoned ==
    (op = "Dealloc" /\ run = "running") =>
        \A ck \in registry :
            ck.free_ctx # NULL =>
                \A b \in ck.start..(ck.end - 1) : Poisoned(shadow, b, 1)

\* the state of the shadow map that C5 asks for around the payload [P, E)
RedzonesGuardPayload(sh, P, E) ==
    /\ \A b \in (P - RedzoneSize)..(P - 1) : Poisoned(sh, b, 1)
    /\ \A b \in E..(E + RedzoneSize - 1) : Poisoned(sh, b, 1)
    /\ \A b \in P..(E - 1) : ~Poisoned(sh, b, 1)

\* C5 as stated: after Alloc inserts a chunk with payload [P, E), every byte
\* of both redzones fails the shadow check and every payload byte passes it.
C5_AllocPoisonsRedzones ==
    [][op' = "Alloc" => \A P \in AddrInputs, E \in AddrInputs :
          FakeSys(Alloc, P, E, 0) => RedzonesGuardPayload(shadow', P, E)
      ]_vars

\* C5 as amended: the same, for a payload whose start and end are multiples
\* of the 8-byte cell.
C5_AllocPoisonsRedzonesAligned ==
    [][op' = "Alloc" => \A P \in AddrInputs, E \in AddrInputs :
          (FakeSys(Alloc, P, E, 0) /\ P % CellSize = 0 /\ E % CellSize = 0)
          => RedzonesGuardPayload(shadow', P, E)
      ]_vars

\* C5 witness: Alloc has just inserted a cell-aligned chunk over a shadow map
\* that the run has already poisoned.
C5_Witness ==
    /\ op = "Alloc"
    /\ \E ck \in registry :
          /\ ck.start % CellSize = 0 /\ ck.end % CellSize = 0
          /\ ck.free_ctx = NULL
          /\ RedzonesGuardPayload(shadow, ck.start, ck.end)

\* C6: after post_exec has called reset, the registry is empty and the
\* shadow map is back to the all-valid baseline.
C6_ResetIsTotal ==
    op = "post_exec" => (registry = {} /\ \A c \in DOMAIN shadow : shadow[c] = Valid)

\* C7: a fake syscall with an action number outside the table ends the run
\* through the reporter with its own kind of report, and the process lives.
C7_BadRequestIsReported ==
    op = "invalid" =>
        (report.kind = "badrequest" /\ run = "crashed" /\ proc = "alive")

\* C8: a chunk's free_ctx, once set, keeps its value for as long as the chunk
\* stays in the registry (a second Dealloc of its start is a bad free).
C8_FreeCtxIsImmutable ==
    [][\A ck \in registry, ck2 \in registry' :
          (ck.free_ctx # NULL /\ ck2.start = ck.start /\ ck2.alloc_ctx = ck.alloc_ctx)
          => ck2.free_ctx = ck.free_ctx
      ]_vars

\* C9: IsPoison leaves the shadow map, the registry and the enabled flag as
\* they were, and the same IsPoison issued again right after it hands back
\* the same value.
C9_IsPoisonIsIdempotent ==
    [][op' = "IsPoison" => \A a1 \in AddrInputs, a2 \in SizeInputs :
          FakeSys(IsPoison, a1, a2, 0) =>
              /\ UNCHANGED <<shadow, registry, enabled>>
              /\ ret' = IsPoisonRet(shadow', a1, a2)
      ]_vars

\* C9 witness: IsPoison has just answered 1 for a range of a poisoned map.
C9_Witness ==
    /\ op = "IsPoison"
    /\ ret = "Some(1)"
    /\ \E c \in DOMAIN shadow : shadow[c] = User

\* the range [addr, addr+size) holds a whole aligned cell
CoversACell(addr, size) ==
    \E c \in 0..MemCells : c * CellSize >= addr /\ (c + 1) * CellSize <= addr + size

PoisonStep(a1, a2, a3) ==
    \/ a3 \in PoisonKind /\ FakeSys(Poison, a1, a2, a3)
    \/ a3 = User /\ FakeSys(UserPoison, a1, a2, 0)

\* C10 as stated: for size > 0 and any tag, an IsPoison issued right after
\* Poison (or UserPoison) hands back 1, and one issued right after the
\* UnPoison of the same range hands back 0.
C10_PoisonRoundTrip ==
    [][/\ op' \in {"Poison", "UserPoison"} =>
          \A a1 \in AddrInputs, a2 \in SizeInputs \ {0}, a3 \in TagInputs \cup {User} :
             PoisonStep(a1, a2, a3) => IsPoisonRet(shadow', a1, a2) = "Some(1)"
       /\ op' = "UnPoison" =>
          \A a1 \in AddrInputs, a2 \in SizeInputs \ {0} :
             FakeSys(UnPoison, a1, a2, 0) => IsPoisonRet(shadow', a1, a2) = "Some(0)"
      ]_vars

\* C10 as amended: the IsPoison after UnPoison hands back 0 for every range
\* with size > 0; the one after Poison hands back 1 when the tag is not Valid
\* and the range holds at least one whole aligned 8-byte cell.
C10_PoisonRoundTripCells ==
    [][/\ op' \in {"Poison", "UserPoison"} =>
          \A a1 \in AddrInputs, a2 \in SizeInputs \ {0}, a3 \in TagInputs \cup {User} :
             (a3 # Valid /\ CoversACell(a1, a2) /\ PoisonStep(a1, a2, a3))
             => IsPoisonRet(shadow', a1, a2) = "Some(1)"
       /\ op' = "UnPoison" =>
          \A a1 \in AddrInputs, a2 \in SizeInputs \ {0} :
             FakeSys(UnPoison, a1, a2, 0) => IsPoisonRet(shadow', a1, a2) = "Some(0)"
      ]_vars

\* C10 witness: UnPoison has just cleared a cell-aligned range next to a
\* cell that a Poison with a reason tag had filled.
C10_Witness ==
    /\ op = "UnPoison"
    /\ ~Poisoned(shadow, 8, 8)
    /\ shadow[g2h(16) \div CellSize] = HeapFreed

\* C11: a load or store of an instruction whose address the instrumentation
\* filter rejects is never checked against the shadow map and never
\* produces a report.
C11_FilteredAccessUnchecked ==
    [][op' \in {"trace_read1_asan", "trace_write8_asan", "load", "store"} =>
       \A pc \in PcInputs, addr \in {8, 16} :
          (~must_instrument(pc) /\ (GuestLoadAt(pc, addr) \/ GuestStoreAt(pc, addr)))
          => (checked' = FALSE /\ report' = report)
      ]_vars

\* C12: no helper exists while the sanitizer runtime is not initialised,
\* whichever constructor is called.
C12_NoHelperBeforeInit == helper = "built" => ASAN_INITED = TRUE

\* the report of a failed check of n bytes at addr, access kind t
AccessReport(t, addr, n) == [kind |-> "access", access_type |-> t, addr |-> addr, n |-> n]

\* C13: when the helper is enabled and the bytes are poisoned, each read_k
\* reports kind 0 and each write_k kind 1, with the guest address that was
\* passed in and with size k (fixed-size variants) or the size argument
\* (N-byte variants).
C13_ReportCarriesKindAddrSize ==
    [][(op' \in AccessOps /\ enabled) =>
       \A addr \in AddrInputs :
          /\ (read_1(addr) /\ Poisoned(shadow, addr, 1)) => report' = AccessReport(0, addr, 1)
          /\ (read_2(addr) /\ Poisoned(shadow, addr, 2)) => report' = AccessReport(0, addr, 2)
          /\ (read_4(addr) /\ Poisoned(shadow, addr, 4)) => report' = AccessReport(0, addr, 4)
          /\ (read_8(addr) /\ Poisoned(shadow, addr, 8)) => report' = AccessReport(0, addr, 8)
          /\ (write_1(addr) /\ Poisoned(shadow, addr, 1)) => report' = AccessReport(1, addr, 1)
          /\ (write_2(addr) /\ Poisoned(shadow, addr, 2)) => report' = AccessReport(1, addr, 2)
          /\ (write_4(addr) /\ Poisoned(shadow, addr, 4)) => report' = AccessReport(1, addr, 4)
          /\ (write_8(addr) /\ Poisoned(shadow, addr, 8)) => report' = AccessReport(1, addr, 8)
          /\ \A size \in SizeInputs :
                /\ (read_n(addr, size) /\ Poisoned(shadow, addr, size))
                   => report' = AccessReport(0, addr, size)
                /\ (write_n(addr, size) /\ Poisoned(shadow, addr, size))
                   => report' = AccessReport(1, addr, size)
      ]_vars

\* C13 witness: write_n, called by the CheckStore action, has reported a
\* store of 3 bytes at the unaligned address 13.
C13_Witness ==
    /\ op = "CheckStore"
    /\ run = "crashed"
    /\ report = AccessReport(1, 13, 3)

\* the names of the eleven recognised actions
SyscallOps == {ActionName(a0) : a0 \in QasanAction}

\* C14: a fake syscall with the reserved number and a recognised action
\* hands back handled(0) for every action but IsPoison (as long as no report
\* ended the run), and IsPoison hands back handled(1) exactly when some byte
\* of [a1, a1+a2) is poisoned, whatever the enabled flag is.
C14_HandledValues ==
    [][op' \in SyscallOps =>
       /\ (op' # "IsPoison" /\ run' = "running") => ret' = "Some(0)"
       /\ \A a1 \in AddrInputs, a2 \in SizeInputs :
             FakeSys(IsPoison, a1, a2, 0) =>
                ret' = IF Poisoned(shadow, a1, a2) THEN "Some(1)" ELSE "Some(0)"
      ]_vars

\* C15: a syscall whose number is not the reserved one is handed back as
\* unhandled and leaves the enabled flag, the shadow map and the registry
\* as they were, whatever a0 is.
C15_OtherSyscallsUntouched ==
    [][\A sys_num \in OtherSysNrs, a0 \in {Alloc} \cup BadActions :
          qasan_fake_syscall(sys_num, a0, 8, 16, 0) =>
             /\ ret' = "None"
             /\ enabled' = enabled /\ shadow' = shadow /\ registry' = registry
             /\ proc' = "alive" /\ run' = run /\ report' = report
      ]_vars

\* C15 witness: an unreserved syscall has come back unhandled while a chunk
\* is live and the helper is disabled.
C15_Witness ==
    /\ op = "syscall"
    /\ ret = "None"
    /\ ~enabled
    /\ registry # {}

\* C16: the enabled flag is true for a fresh helper; Enable sets it, Disable
\* clears it, SwapState negates it (so two in a row restore it), and no
\* other action, hook or reset changes it.
C16_EnabledFollowsToggles ==
    /\ enabled = TRUE
    /\ [][/\ op' = "Enable" => enabled' = TRUE
          /\ op' = "Disable" => enabled' = FALSE
          /\ op' = "SwapState" => enabled' = ~enabled
          /\ op' \notin {"Enable", "Disable", "SwapState"} => enabled' = enabled
         ]_vars

\* C16 witness: SwapState has just switched the helper off.
C16_Witness ==
    /\ op = "SwapState"
    /\ ret = "Some(0)"
    /\ ~enabled

\* the item after is the item before with the library path put in front of
\* its value
PathPrepended(before, after) ==
    after = <<Head(before), asan_lib, " ">> \o SubSeq(before, 2, Len(before))

\* C17: after init_with_asan every LD_PRELOAD setting that was there before
\* the call has the library path before its old value: the LD_PRELOAD entry
\* of the environment list, each LD_PRELOAD= item of QEMU_SET_ENV, and each
\* LD_PRELOAD= argument that follows -E.
C17_EveryPreloadPrepended ==
    [][(op' = "init_with_asan" /\ ASAN_INITED' = TRUE) =>
       /\ \A i \in 1..Len(env) :
             /\ env[i][1] = "LD_PRELOAD" =>
                   /\ env'[i][1] = "LD_PRELOAD"
                   /\ env'[i][2] = <<asan_lib, " ">> \o env[i][2]
             /\ env[i][1] = "QEMU_SET_ENV" =>
                   \A j \in 1..Len(split(env[i][2])) :
                      starts_with_LD_PRELOAD(split(env[i][2])[j]) =>
                         PathPrepended(split(env[i][2])[j], split(env'[i][2])[j])
       /\ \A i \in 2..Len(args) :
             (args[i - 1] = dashE /\ starts_with_LD_PRELOAD(args[i])) =>
                PathPrepended(args[i], args'[i])
      ]_vars

\* C18: an entry point called with a guest address that cannot be
\* translated reports an invalid access of kind OutOfRange and ends the run,
\* without a shadow check on the address and without bringing the process
\* down.
C18_UntranslatableIsReported ==
    [][op' = "trace_read1_asan" =>
       \A addr \in UnmappedInputs, outcome \in LookupOutcomes :
          GuestLoadUnmappedAt(addr, outcome) =>
             /\ report'.kind = "OutOfRange"
             /\ report'.addr = addr
             /\ run' = "crashed"
             /\ proc' = "alive"
             /\ checked' = FALSE
      ]_vars

\* the callback named name is among those in the sequence called
Invoked(called, name) == \E k \in 1..Len(called) : called[k][1] = name

\* C19: the first next_std, and every one after a call in which pre_exec
\* handed back None, invokes init and not post_exec; every one after a call
\* that handed out a test case invokes post_exec with the exit kind of that
\* execution and does not invoke init.
C19_InitOrPostExec ==
    [][\A step_r \in StepResults, pre_r \in PreResults, deinit_r \in StepResults,
          mon_r \in MonitorResults :
          (next_std(step_r, pre_r, deinit_r, mon_r) /\ proc' = "alive") =>
             /\ (returned = <<"-">> \/ Invoked(calls, "deinit")) =>
                   (calls'[1] = <<"init">> /\ ~Invoked(calls', "post_exec"))
             /\ (returned[1] = "Some" /\ returned[2] = "Ok") =>
                   (calls'[1] = <<"post_exec", exit_kind>> /\ ~Invoked(calls', "init"))
      ]_vars

\* C20: after a next_std has returned, errored is true exactly when it
\* handed back Some(Err(_)).
C20_ErroredIffErrReturned ==
    (returned # <<"-">> /\ proc = "alive") =>
       (errored <=> (returned[1] = "Some" /\ returned[2] = "Err"))

\* how many times the callback named name is in the sequence called
TimesInvoked(called, name) == Cardinality({k \in 1..Len(called) : called[k][1] = name})

\* C21: in a next_std call deinit is invoked exactly when pre_exec was
\* reached and handed back None, and then once; after such a call the
\* initialized flag is false, also when deinit or the monitor report failed.
C21_DeinitIffStageDone ==
    [][\A step_r \in StepResults, pre_r \in PreResults, deinit_r \in StepResults,
          mon_r \in MonitorResults :
          (next_std(step_r, pre_r, deinit_r, mon_r) /\ proc' = "alive") =>
             LET done == step_r = "Ok" /\ pre_r = <<"None">>
             IN  /\ Invoked(calls', "deinit") <=> done
                 /\ TimesInvoked(calls', "deinit") <= 1
                 /\ done => initialized' = FALSE
      ]_vars

\* C21 witness: a call that began with post_exec (the flag was up) found the
\* stage done, deinit failed, and the flag is down.
C21_Witness ==
    /\ Len(calls) = 3
    /\ calls[1][1] = "post_exec"
    /\ returned = <<"Some", "Err", "deinit">>
    /\ initialized = FALSE

\* some LD_PRELOAD= setting is there before the call: as an item of a
\* QEMU_SET_ENV value (at its start or right after a comma), or as the
\* argument after a -E
PreloadFound ==
    \/ \E i \in 1..Len(env) :
          /\ env[i][1] = "QEMU_SET_ENV"
          /\ \E k \in 1..Len(env[i][2]) :
                /\ env[i][2][k] = "LD_PRELOAD="
                /\ (k = 1 \/ env[i][2][k - 1] = ",")
    \/ \E i \in 1..(Len(args) - 1) :
          args[i] = <<"-E">> /\ args[i + 1][1] = "LD_PRELOAD="

\* C22: when no LD_PRELOAD is found, init_with_asan puts "-E" and
\* "LD_PRELOAD=<lib>" right after args[0], keeps args[0] and the order of
\* the other arguments, and leaves env as it was; when one is found, args
\* keeps its length.
C22_InsertWhenAbsent ==
    [][(op' = "init_with_asan" /\ ASAN_INITED' = TRUE) =>
       IF PreloadFound
         THEN Len(args') = Len(args)
         ELSE /\ Len(args') = Len(args) + 2
              /\ args'[1] = args[1]
              /\ args'[2] = <<"-E">>
              /\ args'[3] = <<"LD_PRELOAD=", asan_lib>>
              /\ \A i \in 2..Len(args) : args'[i + 2] = args[i]
              /\ env' = env
      ]_vars

\* C22 witness: the pair was inserted after args[0] while env holds a
\* QEMU_SET_ENV value without LD_PRELOAD, which was split and joined again.
C22_Witness ==
    /\ op = "init_with_asan"
    /\ ASAN_INITED = TRUE
    /\ Len(args) = 4
    /\ args[2] = <<"-E">>
    /\ args[3] = <<"LD_PRELOAD=", asan_lib>>
    /\ \E i \in 1..Len(env) : env[i] = <<"QEMU_SET_ENV", <<"X=1", ",">>>>

\* C23: reset and post_exec leave the enabled flag and the instrumentation
\* filter as they are, so a helper the guest switched off stays off in the
\* next run, where no access produces a report.
C23_ResetKeepsEnabledAndFilter ==
    [][/\ post_exec => (enabled' = enabled /\ filter' = filter)
       /\ (op' \in AccessOps /\ ~enabled) => (report' = report /\ run' = run)
      ]_vars

\* C23 witness: a run has just been reset while the helper is off and every
\* address the guest uses is poisoned.
C23_Witness ==
    /\ op = "post_exec"
    /\ ~enabled
    /\ run = "running"
    /\ \A addr \in AddrInputs : Poisoned(shadow, addr, 1)

\* C24: when the shared state is there as next_std is called, it is there
\* again whenever the call returns: with a test case, with None, and with
\* each of the errors.
C24_SharedStateRestored ==
    [][\A step_r \in StepResults, pre_r \in PreResults, deinit_r \in StepResults,
          mon_r \in MonitorResults :
          (shared_state = "Some" /\ next_std(step_r, pre_r, deinit_r, mon_r)
             /\ proc' = "alive")
          => shared_state' = "Some"
      ]_vars

\* C24 witness: a call that began with post_exec came back with the error of
\* the monitor report, and the shared state is in place.
C24_Witness ==
    /\ returned = <<"Some", "Err", "maybe_report_monitor">>
    /\ calls[1][1] = "post_exec"
    /\ errored
    /\ shared_state = "Some"

\* what C25 asks of a call in which init or post_exec handed back an error
StepErrorLeavesStage(step_r) ==
    step_r = "Err" =>
       /\ returned'[1] = "Some" /\ returned'[2] = "Err"
       /\ ~Invoked(calls', "pre_exec")
       /\ ~Invoked(calls', "deinit")
       /\ initialized' = initialized
       /\ exit_kind' = exit_kind

\* C25 as stated: an error of init or post_exec ends the call with Some(Err)
\* before pre_exec and deinit, with the initialized flag and the stored exit
\* kind as they were; and a stored exit kind is reset to None exactly in the
\* calls where pre_exec handed back a test case, Some(Ok(input)).
C25_ExitKindResetOnTestCase ==
    [][\A step_r \in StepResults, pre_r \in PreResults, deinit_r \in StepResults,
          mon_r \in MonitorResults :
          (next_std(step_r, pre_r, deinit_r, mon_r) /\ proc' = "alive") =>
             /\ StepErrorLeavesStage(step_r)
             /\ (step_r = "Ok" /\ pre_r[1] = "Some" /\ pre_r[2] = "Ok")
                   => exit_kind' = "None"
             /\ (exit_kind # "None" /\ exit_kind' = "None")
                   => (step_r = "Ok" /\ pre_r[1] = "Some" /\ pre_r[2] = "Ok")
      ]_vars

\* C25 as amended: the same, with the exit kind reset exactly in the calls
\* where pre_exec handed back Some(_), a test case or an error.
C25_ExitKindResetOnSome ==
    [][\A step_r \in StepResults, pre_r \in PreResults, deinit_r \in StepResults,
          mon_r \in MonitorResults :
          (next_std(step_r, pre_r, deinit_r, mon_r) /\ proc' = "alive") =>
             /\ StepErrorLeavesStage(step_r)
             /\ (step_r = "Ok" /\ pre_r[1] = "Some") => exit_kind' = "None"
             /\ (exit_kind # "None" /\ exit_kind' = "None")
                   => (step_r = "Ok" /\ pre_r[1] = "Some")
      ]_vars

\* C25 witness: post_exec failed; the flag is still up and the exit kind of
\* the last execution is still stored.
C25_Witness ==
    /\ returned = <<"Some", "Err", "post_exec">>
    /\ Len(calls) = 1
    /\ initialized
    /\ exit_kind # "None"

\* the Some bytes of a slice, in their order
RECURSIVE SomeBytes(_)
SomeBytes(v) ==
    IF v = <<>> THEN <<>>
    ELSE (IF Head(v) = None THEN <<>> ELSE <<Head(v)[2]>>) \o SomeBytes(Tail(v))

\* how many elements of a sequence equal x
Count(s, x) == Cardinality({i \in 1..Len(s) : s[i] = x})

\* C26: generalized_to_bytes(generalized_from_options(v)) is the sequence of
\* the Some bytes of v in their order; every None of v put a Gap into the
\* item list and no byte into the result.
C26_ToBytesOfFromOptions ==
    genStep = "to_bytes" =>
       /\ collected = SomeBytes(slice)
       /\ collected = generalized_to_bytes(generalized_from_options(slice))
       /\ Len(collected) = Len(slice) - Count(slice, None)
       /\ Count(metadata, Gap) >= Count(slice, None)

\* C26 witness: a slice with Nones before, between and after its bytes has
\* gone through both functions.
C26_Witness ==
    /\ genStep = "to_bytes"
    /\ slice = <<None, Some(1), Some(0), None>>
    /\ collected = <<1, 0>>

IsBytes(item) == item[1] = "Bytes"

\* C27: the item list generalized_from_options builds is non-empty, starts
\* and ends with a Gap, holds no empty Bytes item and no two adjacent Bytes
\* items.
C27_ItemListShape ==
    genStep \in {"from_options", "to_bytes"} =>
       /\ Len(metadata) > 0
       /\ metadata[1] = Gap
       /\ metadata[Len(metadata)] = Gap
       /\ \A i \in 1..Len(metadata) : IsBytes(metadata[i]) => metadata[i][2] # <<>>
       /\ \A i \in 1..(Len(metadata) - 1) :
             ~(IsBytes(metadata[i]) /\ IsBytes(metadata[i + 1]))

\* C27 witness: a slice that starts and ends with a byte has been turned
\* into Gap, Bytes, Gap, Bytes, Gap.
C27_Witness ==
    /\ genStep = "from_options"
    /\ slice = <<Some(0), Some(1), None, Some(1)>>
    /\ metadata = <<Gap, Bytes(<<0, 1>>), Gap, Bytes(<<1>>), Gap>>

====
